---------------------------- MODULE Spec2Model ----------------------------
(***************************************************************************)
(* A model of src/models.py: the box geometry (box_iou,                    *)
(* generalized_box_iou), the matcher (HungarianMatcher: cost matrix,       *)
(* per-element split, linear_sum_assignment) and the detection filter      *)
(* (PostProcess: score, confidence threshold, nms).                        *)
(*                                                                         *)
(* Tensor values are modelled as extended rationals <<n, d>>: d > 0 is the *)
(* rational n/d in lowest terms, <<0, 0>> is NaN, <<1, 0>> is +inf and     *)
(* <<-1, 0>> is -inf, so that a division by zero gives what the float      *)
(* division gives.  Rounding and signed zeros are not modelled.            *)
(* Indices handed back to the caller are 0-based, as in the source.        *)
(***************************************************************************)
EXTENDS Integers, Sequences, FiniteSets, TLC

VARIABLES
    call,       \* the operation last invoked: "none" or the function's name
    boxes1,     \* box_iou / generalized_box_iou: first argument
    boxes2,     \* box_iou / generalized_box_iou: second argument
    cost,       \* linear_sum_assignment: the cost matrix
    matcher,    \* the HungarianMatcher instance (or its failed construction)
    outputs,    \* forward: pred_logits, pred_boxes
    targets,    \* forward: the list of target sets
    post,       \* the PostProcess instance
    preds,      \* PostProcess.__call__: all_pred_boxes, pred_classes
    runs,       \* PostProcess.__call__ results, by confidence_threshold
    ret         \* what the last call returned or raised

vars == <<call, boxes1, boxes2, cost, matcher, outputs, targets, post, preds, runs, ret>>

---------------------------------------------------------------------------
(* Bounds of the model.                                                    *)

MaxCoord == 2       \* box coordinates range over 0..MaxCoord
MaxDim == 3         \* a cost matrix has at most MaxDim rows and MaxDim columns
MaxCells == 9       \* and at most MaxCells entries
MaxB == 2           \* batch size of a forward call
MaxQ == 2           \* num_queries of a forward call
MaxT == 2           \* targets per batch element
MaxN == 3           \* queries handed to PostProcess

---------------------------------------------------------------------------
(* Extended rational arithmetic (the float operations of the tensors).     *)

Abs(x) == IF x < 0 THEN -x ELSE x

RECURSIVE GCD(_, _)
GCD(a, b) == IF b = 0 THEN a ELSE GCD(b, a % b)

NaN == <<0, 0>>
PosInf == <<1, 0>>
NegInf == <<-1, 0>>

Int2R(n) == <<n, 1>>

IsNaN(a) == a = NaN
IsFinite(a) == a[2] > 0

\* n/d for d > 0, in lowest terms
Norm(n, d) == LET g == GCD(Abs(n), d) IN <<n \div g, d \div g>>

\* float division of two integers
IntDiv(n, d) ==
    IF d > 0 THEN Norm(n, d)
    ELSE IF d < 0 THEN Norm(-n, -d)
    ELSE IF n > 0 THEN PosInf
    ELSE IF n < 0 THEN NegInf
    ELSE NaN

RNeg(a) == <<-a[1], a[2]>>

RAdd(a, b) ==
    IF IsNaN(a) \/ IsNaN(b) THEN NaN
    ELSE IF IsFinite(a) /\ IsFinite(b) THEN Norm(a[1] * b[2] + b[1] * a[2], a[2] * b[2])
    ELSE IF IsFinite(a) THEN b
    ELSE IF IsFinite(b) THEN a
    ELSE IF a = b THEN a
    ELSE NaN

RSub(a, b) == RAdd(a, RNeg(b))

Sign(n) == IF n > 0 THEN 1 ELSE IF n < 0 THEN -1 ELSE 0

RMul(a, b) ==
    IF IsNaN(a) \/ IsNaN(b) THEN NaN
    ELSE IF IsFinite(a) /\ IsFinite(b) THEN Norm(a[1] * b[1], a[2] * b[2])
    ELSE <<Sign(a[1]) * Sign(b[1]), 0>>

\* a < b; false when either is NaN
RLt(a, b) ==
    IF IsNaN(a) \/ IsNaN(b) THEN FALSE
    ELSE IF IsFinite(a) /\ IsFinite(b) THEN a[1] * b[2] < b[1] * a[2]
    ELSE IF IsFinite(a) THEN b = PosInf
    ELSE IF IsFinite(b) THEN a = NegInf
    ELSE a = NegInf /\ b = PosInf

RGt(a, b) == RLt(b, a)

\* a >= b; false when either is NaN
RGe(a, b) == ~IsNaN(a) /\ ~IsNaN(b) /\ ~RLt(a, b)

RECURSIVE SumR(_)
SumR(s) == IF s = <<>> THEN Int2R(0) ELSE RAdd(Head(s), SumR(Tail(s)))

Max(a, b) == IF a >= b THEN a ELSE b
Min(a, b) == IF a <= b THEN a ELSE b

---------------------------------------------------------------------------
(* Box geometry.  A box is <<x0, y0, x1, y1>> with integer coordinates.    *)

\* torchvision.ops.box_area
box_area(b) == (b[3] - b[1]) * (b[4] - b[2])

\* mutant of boxes_valid: only x1 >= x0 is checked
boxes_valid_x(boxes) ==
    \A i \in 1..Len(boxes) : boxes[i][3] >= boxes[i][1]

\* the check of generalized_box_iou: (boxes[:, 2:] >= boxes[:, :2]).all()
boxes_valid(boxes) ==
    \A i \in 1..Len(boxes) : boxes[i][3] >= boxes[i][1] /\ boxes[i][4] >= boxes[i][2]

\* inter of one pair: wh = (rb - lt).clamp(min=0); inter = wh[0] * wh[1]
pair_inter(a, b) ==
    LET w == Max(0, Min(a[3], b[3]) - Max(a[1], b[1]))
        h == Max(0, Min(a[4], b[4]) - Max(a[2], b[2]))
    IN w * h

pair_union(a, b) == box_area(a) + box_area(b) - pair_inter(a, b)

pair_iou(a, b) == IntDiv(pair_inter(a, b), pair_union(a, b))

\* box_iou: the [N, M] matrices iou and union; it performs no check
box_iou(b1, b2) ==
    [iou   |-> [i \in 1..Len(b1) |-> [j \in 1..Len(b2) |-> pair_iou(b1[i], b2[j])]],
     union |-> [i \in 1..Len(b1) |-> [j \in 1..Len(b2) |-> pair_union(b1[i], b2[j])]]]

\* area of the smallest enclosing box of one pair
pair_enclosing(a, b) ==
    LET w == Max(0, Max(a[3], b[3]) - Min(a[1], b[1]))
        h == Max(0, Max(a[4], b[4]) - Min(a[2], b[2]))
    IN w * h

\* iou - (area - union) / area of one pair
pair_giou(iou, union, area) == RSub(iou, IntDiv(area - union, area))

\* the [N, M] matrix of generalized_box_iou, given r = box_iou(b1, b2)
giou_matrix(b1, b2, r) ==
    [i \in 1..Len(b1) |-> [j \in 1..Len(b2) |->
        pair_giou(r.iou[i][j], r.union[i][j], pair_enclosing(b1[i], b2[j]))]]

\* generalized_box_iou: AssertionError on a box with x1 < x0 or y1 < y0,
\* else the [N, M] matrix
generalized_box_iou(b1, b2) ==
    IF ~boxes_valid(b1) \/ ~boxes_valid(b2)
    THEN [status |-> "AssertionError"]
    ELSE [status |-> "ok", giou |-> giou_matrix(b1, b2, box_iou(b1, b2))]

---------------------------------------------------------------------------
(* scipy.optimize.linear_sum_assignment, as called by forward: the         *)
(* shortest augmenting path algorithm for the rectangular problem.  A      *)
(* matrix is a sequence of rows; columns and rows are numbered from 1      *)
(* inside the solver, 0 meaning "unassigned", and from 0 in its result.    *)

n_rows(c) == Len(c)
n_cols(c) == IF Len(c) = 0 THEN 0 ELSE Len(c[1])

transposed(c) == [j \in 1..n_cols(c) |-> [i \in 1..n_rows(c) |-> c[i][j]]]

\* mutant of reduced_cost: the length of the path so far is left out
reduced_cost_nomin(minVal, cij, ui, vj) == RSub(RSub(cij, ui), vj)

\* r = minVal + cost[i][j] - u[i] - v[j]
reduced_cost(minVal, cij, ui, vj) == RSub(RSub(RAdd(minVal, cij), ui), vj)

\* one step of the for-loop: column j = remaining[it] with reduced cost r;
\* the path and the shortest cost of j are updated when r is shorter, and j
\* becomes the lowest so far when it is lower, or as low and unassigned
ap_visit(s, i, it, j, r) ==
    [s EXCEPT !.path = IF RLt(r, s.spc[j]) THEN [@ EXCEPT ![j] = i] ELSE @,
              !.spc = IF RLt(r, s.spc[j]) THEN [@ EXCEPT ![j] = r] ELSE @,
              !.lowest = IF RLt(r, s.spc[j])
                         THEN (IF RLt(r, @) \/ (r = @ /\ s.row4col[j] = 0) THEN r ELSE @)
                         ELSE (IF RLt(s.spc[j], @) \/ (s.spc[j] = @ /\ s.row4col[j] = 0)
                               THEN s.spc[j] ELSE @),
              !.index = IF RLt(r, s.spc[j])
                        THEN (IF RLt(r, s.lowest) \/ (r = s.lowest /\ s.row4col[j] = 0)
                              THEN it ELSE @)
                        ELSE (IF RLt(s.spc[j], s.lowest)
                                 \/ (s.spc[j] = s.lowest /\ s.row4col[j] = 0)
                              THEN it ELSE @)]

\* the for-loop of augmenting_path over remaining[it]
RECURSIVE ap_scan(_, _, _, _)
ap_scan(c, s, i, it) ==
    IF it > s.num_remaining THEN s
    ELSE ap_scan(c,
                 ap_visit(s, i, it, s.remaining[it],
                          reduced_cost(s.minVal, c[i][s.remaining[it]], s.u[i],
                                       s.v[s.remaining[it]])),
                 i, it + 1)

\* after the for-loop: the lowest column j leaves remaining and joins SC
ap_take(s, j) ==
    [s EXCEPT !.minVal = s.lowest,
              !.SC = @ \cup {j},
              !.remaining = [@ EXCEPT ![s.index] = s.remaining[s.num_remaining]],
              !.num_remaining = @ - 1,
              !.sink = IF s.row4col[j] = 0 THEN j ELSE @]

\* the while (sink == -1) loop of augmenting_path; s is the state after the
\* for-loop of the current row
RECURSIVE ap_loop(_, _)
ap_loop(c, s) ==
    IF s.lowest = PosInf
    THEN [s EXCEPT !.minVal = s.lowest, !.sink = -1]
    ELSE IF s.row4col[s.remaining[s.index]] = 0
    THEN ap_take(s, s.remaining[s.index])
    ELSE ap_loop(c, ap_scan(c, [ap_take(s, s.remaining[s.index])
                                   EXCEPT !.SR = @ \cup {s.row4col[s.remaining[s.index]]},
                                          !.lowest = PosInf, !.index = 0],
                            s.row4col[s.remaining[s.index]], 1))

augmenting_path(c, st, curRow) ==
    ap_loop(c, ap_scan(c, [u |-> st.u, v |-> st.v, path |-> st.path,
                           row4col |-> st.row4col,
                           minVal |-> Int2R(0),
                           remaining |-> [it \in 1..n_cols(c) |-> n_cols(c) - it + 1],
                           num_remaining |-> n_cols(c),
                           SR |-> {curRow}, SC |-> {},
                           spc |-> [j \in 1..n_cols(c) |-> PosInf],
                           lowest |-> PosInf, index |-> 0, sink |-> 0], curRow, 1))

\* "augment previous solution": walk the path back from the sink
RECURSIVE augment(_, _, _, _, _)
augment(path, row4col, col4row, j, curRow) ==
    IF path[j] = curRow
    THEN [row4col |-> [row4col EXCEPT ![j] = path[j]],
          col4row |-> [col4row EXCEPT ![path[j]] = j]]
    ELSE augment(path, [row4col EXCEPT ![j] = path[j]],
                 [col4row EXCEPT ![path[j]] = j], col4row[path[j]], curRow)

\* "update dual variables" and the augmentation, given the path a found for
\* curRow and the assignment g augmented along it
lsap_update(c, st, curRow, a, g) ==
    [u |-> [i \in 1..n_rows(c) |->
              IF i = curRow THEN RAdd(st.u[i], a.minVal)
              ELSE IF i \in a.SR
                   THEN RAdd(st.u[i], RSub(a.minVal, a.spc[st.col4row[i]]))
                   ELSE st.u[i]],
     v |-> [j \in 1..n_cols(c) |->
              IF j \in a.SC
              THEN RSub(st.v[j], RSub(a.minVal, a.spc[j]))
              ELSE st.v[j]],
     path |-> a.path,
     row4col |-> g.row4col, col4row |-> g.col4row,
     feasible |-> TRUE]

\* one turn of the loop of solve, given the path a found for curRow
lsap_row(c, st, curRow, a) ==
    IF a.sink = -1 THEN [st EXCEPT !.feasible = FALSE]
    ELSE lsap_update(c, st, curRow, a,
                     augment(a.path, st.row4col, st.col4row, a.sink, curRow))

\* the loop of solve over curRow
RECURSIVE lsap_rows(_, _, _)
lsap_rows(c, st, curRow) ==
    IF curRow > n_rows(c) \/ ~st.feasible THEN st
    ELSE lsap_rows(c, lsap_row(c, st, curRow, augmenting_path(c, st, curRow)), curRow + 1)

\* NaN and -inf entries are refused
lsap_invalid(c) ==
    \E i \in 1..n_rows(c) : \E j \in 1..n_cols(c) : IsNaN(c[i][j]) \/ c[i][j] = NegInf

\* solve on a matrix with no more rows than columns: col4row
lsap_solve(c) ==
    lsap_rows(c, [u |-> [i \in 1..n_rows(c) |-> Int2R(0)],
                  v |-> [j \in 1..n_cols(c) |-> Int2R(0)],
                  path |-> [j \in 1..n_cols(c) |-> 0],
                  col4row |-> [i \in 1..n_rows(c) |-> 0],
                  row4col |-> [j \in 1..n_cols(c) |-> 0],
                  feasible |-> TRUE], 1)

\* mutant of lsap_result: col4row is read as if nothing had been transposed
lsap_result_direct(c, col4row) ==
    [status |-> "ok",
     row_ind |-> [i \in 1..Len(col4row) |-> i - 1],
     col_ind |-> [i \in 1..Len(col4row) |-> col4row[i] - 1]]

\* the result (a, b) of solve, 0-based and ordered by row: when the matrix
\* was transposed, col4row is read backwards
lsap_result(c, col4row) ==
    IF n_cols(c) < n_rows(c)
    THEN LET used == {col4row[k] : k \in 1..n_cols(c)}
             rows == SelectSeq([i \in 1..n_rows(c) |-> i], LAMBDA i : i \in used)
         IN [status |-> "ok",
             row_ind |-> [k \in 1..Len(rows) |-> rows[k] - 1],
             col_ind |-> [k \in 1..Len(rows) |->
                            (CHOOSE v \in 1..n_cols(c) : col4row[v] = rows[k]) - 1]]
    ELSE [status |-> "ok",
          row_ind |-> [i \in 1..n_rows(c) |-> i - 1],
          col_ind |-> [i \in 1..n_rows(c) |-> col4row[i] - 1]]

\* the answer of solve, given the final state st of its loop
lsap_answer(c, st) ==
    IF ~st.feasible THEN [status |-> "ValueError"] ELSE lsap_result(c, st.col4row)

\* solve on a matrix with at least one row and one column: ValueError on
\* NaN / -inf entries or an infeasible matrix
lsap_nontrivial(c) ==
    IF lsap_invalid(c) THEN [status |-> "ValueError"]
    ELSE lsap_answer(c, lsap_solve(IF n_cols(c) < n_rows(c) THEN transposed(c) ELSE c))

\* mutant of linear_sum_assignment: a matrix without rows or columns is refused
lsa_rejects_empty(c) ==
    IF n_rows(c) = 0 \/ n_cols(c) = 0
    THEN [status |-> "ValueError"]
    ELSE lsap_nontrivial(c)

\* (row_ind, col_ind); empty when a dimension is 0
linear_sum_assignment(c) ==
    IF n_rows(c) = 0 \/ n_cols(c) = 0
    THEN [status |-> "ok", row_ind |-> <<>>, col_ind |-> <<>>]
    ELSE lsap_nontrivial(c)

---------------------------------------------------------------------------
(* HungarianMatcher.                                                       *)
(* A logit is represented by its exponential, a positive integer w, so     *)
(* that softmax over a row is w[c] / sum(w).                               *)

\* mutant of weights_ok: "and" for "or"
weights_all(cost_class, cost_bbox, cost_giou) ==
    cost_class # 0 /\ cost_bbox # 0 /\ cost_giou # 0

\* the assertion of __init__: cost_class != 0 or cost_bbox != 0 or cost_giou != 0
weights_ok(cost_class, cost_bbox, cost_giou) ==
    cost_class # 0 \/ cost_bbox # 0 \/ cost_giou # 0

\* __init__: the attributes are set, then the assertion decides
HungarianMatcher(cost_class, cost_bbox, cost_giou) ==
    [status |-> IF weights_ok(cost_class, cost_bbox, cost_giou)
                THEN "constructed" ELSE "AssertionError",
     cost_class |-> cost_class, cost_bbox |-> cost_bbox, cost_giou |-> cost_giou]

RECURSIVE SumSeq(_)
SumSeq(s) == IF s = <<>> THEN 0 ELSE Head(s) + SumSeq(Tail(s))

RECURSIVE Concat(_)
Concat(ss) == IF ss = <<>> THEN <<>> ELSE Head(ss) \o Concat(Tail(ss))

\* softmax(-1) of one row of logits
softmax(w) == [c \in 1..Len(w) |-> IntDiv(w[c], SumSeq(w))]

\* tensor.flatten(0, 1): [bs, Q, ...] -> [bs * Q, ...]
flatten(t) == Concat(t)

\* torch.cdist(p=1) of one pair of boxes
l1_dist(a, b) == Abs(a[1] - b[1]) + Abs(a[2] - b[2]) + Abs(a[3] - b[3]) + Abs(a[4] - b[4])

\* one entry of C = cost_bbox * L1 + cost_class * (-prob) + cost_giou * (-giou)
combine(m, bbox, prob, giou) ==
    RAdd(RAdd(RMul(Int2R(m.cost_bbox), Int2R(bbox)),
              RMul(Int2R(m.cost_class), RNeg(prob))),
         RMul(Int2R(m.cost_giou), RNeg(giou)))

\* C.view(bs, num_queries, -1): row (b, q) of the view is row (b - 1) * Q + q
view(C, bs, num_queries) ==
    [b \in 1..bs |-> [q \in 1..num_queries |-> C[(b - 1) * num_queries + q]]]

\* mutant of split: every chunk starts at the first column
split_no_offset(C3, sizes) ==
    [i \in 1..Len(sizes) |->
        [b \in 1..Len(C3) |-> [q \in 1..Len(C3[b]) |->
            [t \in 1..sizes[i] |-> C3[b][q][t]]]]]

\* C.split(sizes, -1): chunk i keeps, of every row, the columns of target set i
split(C3, sizes) ==
    [i \in 1..Len(sizes) |->
        LET off == SumSeq(SubSeq(sizes, 1, i - 1))
        IN [b \in 1..Len(C3) |-> [q \in 1..Len(C3[b]) |->
               [t \in 1..sizes[i] |-> C3[b][q][off + t]]]]]

\* out_prob: the softmax of every query of the flattened batch
out_prob(out) ==
    [n \in 1..Len(flatten(out.pred_logits)) |-> softmax(flatten(out.pred_logits)[n])]

\* tgt_ids, tgt_bbox, sizes
tgt_ids(tgt) == Concat([k \in 1..Len(tgt) |-> tgt[k].labels])
tgt_bbox(tgt) == Concat([k \in 1..Len(tgt) |-> tgt[k].boxes])
target_sizes(tgt) == [k \in 1..Len(tgt) |-> Len(tgt[k].boxes)]

\* C, [bs * Q, sum(T)], from the flattened predictions, the concatenated
\* targets and the matrix giou of generalized_box_iou
cost_matrix(m, prob, bbox, ids, tbox, giou) ==
    [n \in 1..Len(bbox) |-> [k \in 1..Len(tbox) |->
        combine(m, l1_dist(bbox[n], tbox[k]), prob[n][ids[k] + 1], giou[n][k])]]

\* c[i] for i, c in enumerate(chunks), for the i the view has an element for
own_chunks(chunks, n) == [i \in 1..n |-> chunks[i][i]]

\* the cost matrices handed to linear_sum_assignment
cost_blocks(m, out, tgt) ==
    own_chunks(
        split(view(cost_matrix(m, out_prob(out), flatten(out.pred_boxes),
                               tgt_ids(tgt), tgt_bbox(tgt),
                               generalized_box_iou(flatten(out.pred_boxes),
                                                   tgt_bbox(tgt)).giou),
                   Len(out.pred_logits), Len(out.pred_logits[1])),
              target_sizes(tgt)),
        Min(Len(tgt), Len(out.pred_logits)))

\* one turn of the list comprehension, given the solver's answer r
solved(acc, r) ==
    IF r.status # "ok" THEN [status |-> r.status]
    ELSE [status |-> "ok", indices |-> Append(acc.indices, [i |-> r.row_ind, j |-> r.col_ind])]

\* the list comprehension over the n chunks: the results up to the first
\* element that raises (c[i] with i >= bs is an IndexError)
RECURSIVE solve_blocks(_, _, _, _)
solve_blocks(blocks, n, i, acc) ==
    IF i > n \/ acc.status # "ok" THEN acc
    ELSE IF i > Len(blocks) THEN [status |-> "IndexError"]
    ELSE solve_blocks(blocks, n, i + 1, solved(acc, linear_sum_assignment(blocks[i])))

\* forward: the list of (index_i, index_j), or the first error raised
forward(m, out, tgt) ==
    IF Len(tgt) = 0 THEN [status |-> "RuntimeError"]
    ELSE IF generalized_box_iou(flatten(out.pred_boxes), tgt_bbox(tgt)).status # "ok"
    THEN [status |-> "AssertionError"]
    ELSE solve_blocks(cost_blocks(m, out, tgt), Len(tgt), 1,
                      [status |-> "ok", indices |-> <<>>])

---------------------------------------------------------------------------
(* PostProcess.                                                            *)

\* __init__
PostProcess(confidence_threshold, iou_threshold) ==
    [status |-> "constructed",
     confidence_threshold |-> confidence_threshold,
     iou_threshold |-> iou_threshold]

\* the defaults of __init__: 0.75 and 0.3
DefaultConfidenceThreshold == <<3, 4>>
DefaultIouThreshold == <<3, 10>>

\* softmax(pred_classes, dim=-1)[:, :-1] of one query
class_scores(logits) == SubSeq(softmax(logits), 1, Len(logits) - 1)

\* torch.max(scores, dim=1).values of one query
top_score(logits) ==
    LET sc == class_scores(logits)
    IN sc[CHOOSE c \in 1..Len(sc) : \A d \in 1..Len(sc) : ~RLt(sc[c], sc[d])]

\* torch.max(scores, dim=1).indices of one query: the first maximum, 0-based
top_class(logits) ==
    LET sc == class_scores(logits)
        best == {c \in 1..Len(sc) : \A d \in 1..Len(sc) : ~RLt(sc[c], sc[d])}
    IN (CHOOSE c \in best : \A d \in best : c <= d) - 1

\* idx = scores > self.confidence_threshold
above(score, confidence_threshold) == RGt(score, confidence_threshold)

\* the overlap nms computes for two boxes
nms_ovr(a, b) ==
    LET w == Max(0, Min(a[3], b[3]) - Max(a[1], b[1]))
        h == Max(0, Min(a[4], b[4]) - Max(a[2], b[2]))
        inter == w * h
    IN IntDiv(inter, (a[3] - a[1]) * (a[4] - a[2]) + (b[3] - b[1]) * (b[4] - b[2]) - inter)

\* mutant of nms_suppresses: >= for >
nms_suppresses_ge(ovr, iou_threshold) == RGe(ovr, iou_threshold)

\* whether nms lets a box suppress another: ovr > iou_threshold
nms_suppresses(ovr, iou_threshold) == RGt(ovr, iou_threshold)

\* mutant of nms_before: the sort is ascending
nms_before_asc(scores, i, j) == RLt(scores[i], scores[j]) \/ (scores[i] = scores[j] /\ i < j)

\* whether the stable descending sort of nms puts position i before position j
nms_before(scores, i, j) == RGt(scores[i], scores[j]) \/ (scores[i] = scores[j] /\ i < j)

\* scores.sort(stable, descending): the positions, best first
RECURSIVE nms_order(_, _)
nms_order(scores, left) ==
    IF left = {} THEN <<>>
    ELSE LET i == CHOOSE x \in left : \A y \in left \ {x} : nms_before(scores, x, y)
         IN <<i>> \o nms_order(scores, left \ {i})

\* the loop of nms over the sorted positions
RECURSIVE nms_loop(_, _, _, _, _, _)
nms_loop(boxes, order, iou_threshold, k, suppressed, keep) ==
    IF k > Len(order) THEN keep
    ELSE IF order[k] \in suppressed
    THEN nms_loop(boxes, order, iou_threshold, k + 1, suppressed, keep)
    ELSE LET hit == {order[l] : l \in {l \in (k + 1)..Len(order) :
                        /\ order[l] \notin suppressed
                        /\ nms_suppresses(nms_ovr(boxes[order[k]], boxes[order[l]]),
                                          iou_threshold)}}
         IN nms_loop(boxes, order, iou_threshold, k + 1, suppressed \cup hit,
                     Append(keep, order[k]))

\* torchvision.ops.nms: the positions kept, by decreasing score
nms(boxes, scores, iou_threshold) ==
    nms_loop(boxes, nms_order(scores, 1..Len(scores)), iou_threshold, 1, {}, <<>>)

\* scores > confidence_threshold: the positions that pass
passing(scores, confidence_threshold) ==
    SelectSeq([q \in 1..Len(scores) |-> q], LAMBDA q : above(scores[q], confidence_threshold))

\* x[idx]
take(x, idx) == [k \in 1..Len(idx) |-> x[idx[k]]]

\* what __call__ returns, given the positions sel of the detections among
\* the queries; query holds these positions, 0-based, beside what is returned
detections(prd, sel) ==
    [status |-> "ok",
     boxes |-> take(prd.boxes, sel),
     classes |-> [k \in 1..Len(sel) |-> top_class(prd.logits[sel[k]])],
     scores |-> [k \in 1..Len(sel) |-> top_score(prd.logits[sel[k]])],
     query |-> [k \in 1..Len(sel) |-> sel[k] - 1]]

\* the threshold stage and the nms stage, given the scores of the queries
\* and the positions idx that pass the threshold
filtered(p, prd, scores, idx) ==
    detections(prd, take(idx, nms(take(prd.boxes, idx), take(scores, idx), p.iou_threshold)))

\* __call__ on the predictions of one image
post_call(p, prd) ==
    filtered(p, prd, [q \in 1..Len(prd.boxes) |-> top_score(prd.logits[q])],
             passing([q \in 1..Len(prd.boxes) |-> top_score(prd.logits[q])],
                     p.confidence_threshold))

---------------------------------------------------------------------------
(* The state machine.  Every operation is a call: its arguments are chosen *)
(* when it is made and kept in the state with what it returned.            *)

Init ==
    /\ call = "none"
    /\ boxes1 = <<>>
    /\ boxes2 = <<>>
    /\ cost = <<>>
    /\ matcher = [status |-> "none"]
    /\ outputs = <<>>
    /\ targets = <<>>
    /\ post = [status |-> "none"]
    /\ preds = <<>>
    /\ runs = {}
    /\ ret = [status |-> "none"]

\* cost values of the matrices handed to the solver directly
CostValues == {-1, 1, 5}

Shapes == {rc \in (1..MaxDim) \X (1..MaxDim) : rc[1] * rc[2] <= MaxCells}

CostMatrices ==
    UNION {[1..rc[1] -> [1..rc[2] -> {Int2R(x) : x \in CostValues}]] : rc \in Shapes}

\* a direct call of linear_sum_assignment on a cost matrix
Solve ==
    /\ call = "none"
    /\ \E c \in CostMatrices :
        /\ cost' = c
        /\ ret' = linear_sum_assignment(c)
    /\ call' = "linear_sum_assignment"
    /\ UNCHANGED <<boxes1, boxes2, matcher, outputs, targets, post, preds, runs>>

SpecSolver == Init /\ [][Solve]_vars

---------------------------------------------------------------------------
(* Direct calls of the geometry functions on one box against one box.      *)

Coords == 0..MaxCoord

\* every box of the grid, the ones with x1 < x0 or y1 < y0 included
AllBoxes == Coords \X Coords \X Coords \X Coords

\* the module's functions called directly, before any object is built

BoxIou ==
    /\ call = "none"
    /\ matcher.status = "none"
    /\ \E a \in AllBoxes, b \in AllBoxes :
        /\ boxes1' = <<a>>
        /\ boxes2' = <<b>>
        /\ ret' = [status |-> "ok"] @@ box_iou(<<a>>, <<b>>)
    /\ call' = "box_iou"
    /\ UNCHANGED <<cost, matcher, outputs, targets, post, preds, runs>>

GeneralizedBoxIou ==
    /\ call = "none"
    /\ matcher.status = "none"
    /\ \E a \in AllBoxes, b \in AllBoxes :
        /\ boxes1' = <<a>>
        /\ boxes2' = <<b>>
        /\ ret' = generalized_box_iou(<<a>>, <<b>>)
    /\ call' = "generalized_box_iou"
    /\ UNCHANGED <<cost, matcher, outputs, targets, post, preds, runs>>

SpecGeom == Init /\ [][BoxIou \/ GeneralizedBoxIou]_vars

---------------------------------------------------------------------------
(* Calls of the matcher.                                                   *)

\* the weights (cost_class, cost_bbox, cost_giou) a matcher is built with
WeightChoices == {<<1, 1, 1>>, <<0, 5, 2>>, <<0, 0, 0>>}

\* candidate queries: exp(logits) over the classes, and a box; the third
\* box has no area
QueryPool ==
    << [logits |-> <<3, 1>>, box |-> <<0, 0, 2, 2>>],
       [logits |-> <<1, 2>>, box |-> <<1, 1, 3, 2>>],
       [logits |-> <<1, 1>>, box |-> <<1, 1, 1, 1>>],
       [logits |-> <<1, 4>>, box |-> <<0, 1, 3, 2>>] >>

\* candidate targets: a class label and a box; the third box has no area
TargetPool ==
    << [label |-> 1, box |-> <<1, 0, 3, 2>>],
       [label |-> 0, box |-> <<0, 0, 2, 1>>],
       [label |-> 1, box |-> <<1, 1, 1, 1>>],
       [label |-> 0, box |-> <<0, 1, 2, 2>>] >>

\* a box with x1 < x0 and a box with y1 < y0
BadPredBox == <<2, 0, 1, 1>>
BadTargetBox == <<0, 2, 1, 0>>

\* n consecutive entries of a pool, from position s on, cyclically
Window(pool, s, n) == [k \in 1..n |-> pool[((s + k - 2) % Len(pool)) + 1]]

\* [bs, Q] predictions: element b holds the Q pool entries from s + b - 1 on
Outputs(bs, num_queries, s) ==
    [pred_logits |-> [b \in 1..bs |-> [q \in 1..num_queries |->
                        Window(QueryPool, s + b - 1, num_queries)[q].logits]],
     pred_boxes  |-> [b \in 1..bs |-> [q \in 1..num_queries |->
                        Window(QueryPool, s + b - 1, num_queries)[q].box]]]

\* target sets of the sizes given: set k holds sizes[k] pool entries from
\* s + k - 1 on
Targets(sizes, s) ==
    [k \in 1..Len(sizes) |->
        [labels |-> [t \in 1..sizes[k] |-> Window(TargetPool, s + k - 1, sizes[k])[t].label],
         boxes  |-> [t \in 1..sizes[k] |-> Window(TargetPool, s + k - 1, sizes[k])[t].box]]]

\* where the windows of the predictions start
QueryStarts == {1, 3}

\* the arguments as they are, or with the last box of the predictions or the
\* first box of the targets replaced by a bad one
Corruptions == {"none", "pred_last", "target_first"}

CorruptOutputs(out, c) ==
    CASE c = "pred_last" ->
            [out EXCEPT !.pred_boxes[Len(out.pred_boxes)][Len(out.pred_boxes[1])] = BadPredBox]
      [] OTHER -> out

NonEmptySets(tgt) == {k \in 1..Len(tgt) : Len(tgt[k].boxes) > 0}

CorruptTargets(tgt, c) ==
    LET ks == NonEmptySets(tgt)
    IN CASE c = "target_first" /\ ks # {} ->
               LET k == CHOOSE x \in ks : \A y \in ks : x <= y
               IN [tgt EXCEPT ![k].boxes[1] = BadTargetBox]
         [] OTHER -> tgt

Construct ==
    /\ call = "none"
    /\ matcher.status = "none"
    /\ \E w \in WeightChoices : matcher' = HungarianMatcher(w[1], w[2], w[3])
    /\ UNCHANGED <<call, boxes1, boxes2, cost, outputs, targets, post, preds, runs, ret>>

\* a forward call on a constructed matcher; the number of target sets may
\* differ from the batch size by one
Forward ==
    /\ call = "none"
    /\ matcher.status = "constructed"
    /\ \E bs \in 1..MaxB, num_queries \in 1..MaxQ, s \in QueryStarts :
       \E n \in {bs - 1, bs, bs + 1}, st \in 1..Len(TargetPool) :
       \E sizes \in [1..n -> 0..MaxT] :
       \E c \in Corruptions :
        /\ outputs' = CorruptOutputs(Outputs(bs, num_queries, s), c)
        /\ targets' = CorruptTargets(Targets(sizes, st), c)
        /\ ret' = forward(matcher, outputs', targets')
    /\ call' = "forward"
    /\ UNCHANGED <<boxes1, boxes2, cost, matcher, post, preds, runs>>

SpecMatch == Init /\ [][Construct \/ Forward]_vars

\* the geometry functions called directly, and through the matcher
SpecGeomMatch == Init /\ [][BoxIou \/ GeneralizedBoxIou \/ Construct \/ Forward]_vars

---------------------------------------------------------------------------
(* Calls of the detection filter: PostProcess objects of several           *)
(* confidence thresholds, called on the same predictions.                  *)

ConfidenceThresholds == {<<1, 4>>, DefaultConfidenceThreshold, <<4, 5>>}
IouThresholds == {DefaultIouThreshold, <<1, 2>>}

\* candidate queries: exp(logits) over the classes (the last is "no object")
\* and a box; the fifth box has no area
DetectionPool ==
    { [logits |-> <<1, 6, 1>>,  box |-> <<0, 0, 2, 2>>],
      [logits |-> <<8, 1, 1>>,  box |-> <<0, 0, 2, 1>>],
      [logits |-> <<1, 17, 2>>, box |-> <<0, 1, 2, 2>>],
      [logits |-> <<8, 1, 1>>,  box |-> <<1, 0, 3, 2>>],
      [logits |-> <<2, 1, 1>>,  box |-> <<1, 1, 1, 1>>],
      [logits |-> <<3, 3, 2>>,  box |-> <<0, 0, 2, 2>>] }

Predictions ==
    UNION {{[boxes |-> [q \in 1..n |-> d[q].box], logits |-> [q \in 1..n |-> d[q].logits]] :
              d \in [1..n -> DetectionPool]} : n \in 0..MaxN}

\* a PostProcess object is built; once one has been called, the next has the
\* same iou threshold and a greater confidence threshold
PostProcessInit ==
    /\ call \in {"none", "PostProcess"}
    /\ \E c \in ConfidenceThresholds, t \in IouThresholds :
        /\ post.status = "constructed" => t = post.iou_threshold
        /\ runs # {} => RGt(c, post.confidence_threshold)
        /\ post' = PostProcess(c, t)
    /\ UNCHANGED <<call, boxes1, boxes2, cost, matcher, outputs, targets, preds, runs, ret>>

PostProcessCall ==
    /\ call \in {"none", "PostProcess"}
    /\ post.status = "constructed"
    /\ \E p \in Predictions :
        /\ runs # {} => p = preds
        /\ preds' = p
        /\ ret' = post_call(post, p)
        /\ runs' = runs \cup {[confidence_threshold |-> post.confidence_threshold,
                               iou_threshold |-> post.iou_threshold,
                               out |-> post_call(post, p)]}
    /\ call' = "PostProcess"
    /\ UNCHANGED <<boxes1, boxes2, cost, matcher, outputs, targets, post>>

SpecFilter == Init /\ [][PostProcessInit \/ PostProcessCall]_vars

Next ==
    \/ BoxIou
    \/ GeneralizedBoxIou
    \/ Solve
    \/ Construct
    \/ Forward
    \/ PostProcessInit
    \/ PostProcessCall

Spec == Init /\ [][Next]_vars

---------------------------------------------------------------------------
(* Brute force over all one-to-one matchings, for comparison.              *)

\* all injections of 1..k into 1..n (k <= n)
Injections(k, n) == {f \in [1..k -> 1..n] : \A a, b \in 1..k : a # b => f[a] # f[b]}

\* total cost of the pairs (row_ind[k], col_ind[k]) of a result
assignment_cost(c, r) ==
    SumR([k \in 1..Len(r.row_ind) |-> c[r.row_ind[k] + 1][r.col_ind[k] + 1]])

\* the total costs of all one-to-one matchings of size min(nr, nc)
matching_costs(c) ==
    IF n_rows(c) <= n_cols(c)
    THEN {SumR([i \in 1..n_rows(c) |-> c[i][f[i]]]) : f \in Injections(n_rows(c), n_cols(c))}
    ELSE {SumR([j \in 1..n_cols(c) |-> c[f[j]][j]]) : f \in Injections(n_cols(c), n_rows(c))}

\* C2: the total cost of the assignment linear_sum_assignment returns is the
\* minimum over all one-to-one matchings of size min(Q, T).
C2_Optimal ==
    (call = "linear_sum_assignment") =>
        /\ ret.status = "ok"
        /\ LET got == assignment_cost(cost, ret)
               all == matching_costs(cost)
           IN got \in all /\ \A m \in all : ~RLt(m, got)

\* the example of the specification: [[1, 5], [5, 1]] gives {(0, 0), (1, 1)}
C2_Witness ==
    /\ call = "linear_sum_assignment"
    /\ cost = << <<Int2R(1), Int2R(5)>>, <<Int2R(5), Int2R(1)>> >>
    /\ ret.status = "ok"
    /\ ret.row_ind = <<0, 1>>
    /\ ret.col_ind = <<0, 1>>
    /\ assignment_cost(cost, ret) = Int2R(2)

---------------------------------------------------------------------------
(* Properties of the matcher.                                              *)

batch_size == Len(outputs.pred_logits)
num_queries == Len(outputs.pred_logits[1])
num_targets(b) == Len(targets[b].boxes)

\* C1: in every assignment forward returns, the pairs (q, t) are indices of
\* the element's queries and targets, no query and no target appears twice,
\* and there are exactly min(Q, T) pairs; there is one assignment per target
\* set.
C1_UniquePairs ==
    (call = "forward" /\ ret.status = "ok") =>
        /\ Len(ret.indices) = Len(targets)
        /\ \A b \in 1..Len(ret.indices) :
            LET qs == ret.indices[b].i
                ts == ret.indices[b].j
            IN /\ Len(qs) = Len(ts)
               /\ Len(qs) = Min(num_queries, num_targets(b))
               /\ \A k \in 1..Len(qs) :
                    /\ qs[k] \in 0..(num_queries - 1)
                    /\ ts[k] \in 0..(num_targets(b) - 1)
               /\ \A k, l \in 1..Len(qs) : k # l => qs[k] # qs[l] /\ ts[k] # ts[l]

\* a batch of two with more queries than targets in one element and as many
\* in the other
C1_Witness ==
    /\ call = "forward"
    /\ ret.status = "ok"
    /\ batch_size = 2 /\ Len(targets) = 2
    /\ num_queries = 2
    /\ num_targets(1) = 1 /\ num_targets(2) = 2
    /\ Len(ret.indices[1].i) = 1 /\ Len(ret.indices[2].i) = 2

\* C3: forward fails whenever the number of target sets differs from the
\* batch size of the predictions.
C3_ShapeError ==
    (call = "forward" /\ Len(targets) # batch_size) => ret.status # "ok"

degenerate(b) == b[3] < b[1] \/ b[4] < b[2]

\* the boxes handed to the call
input_boxes ==
    IF call = "forward"
    THEN Concat(outputs.pred_boxes) \o Concat([k \in 1..Len(targets) |-> targets[k].boxes])
    ELSE boxes1 \o boxes2

some_degenerate == \E k \in 1..Len(input_boxes) : degenerate(input_boxes[k])

no_area(b) == box_area(b) = 0

\* a query and a target of the same element that both have no area: their
\* IoU is 0 / 0
nan_pair ==
    \E b \in 1..Min(batch_size, Len(targets)) :
        \E q \in 1..num_queries, t \in 1..num_targets(b) :
            no_area(outputs.pred_boxes[b][q]) /\ no_area(targets[b].boxes[t])

\* C5: a batch element with no targets gets the empty assignment, and having
\* no targets is never what makes forward fail: a failing call has no target
\* sets at all, more target sets than batch elements, a box with x1 < x0 or
\* y1 < y0, or a NaN cost in an element that has targets.
C5_EmptyTargets ==
    call = "forward" =>
        /\ ret.status = "ok" =>
              \A b \in 1..Len(ret.indices) :
                  num_targets(b) = 0 => ret.indices[b] = [i |-> <<>>, j |-> <<>>]
        /\ ret.status # "ok" =>
              \/ Len(targets) = 0
              \/ Len(targets) > batch_size
              \/ some_degenerate
              \/ nan_pair

\* an element without targets beside one with targets
C5_Witness ==
    /\ call = "forward"
    /\ ret.status = "ok"
    /\ batch_size = 2 /\ Len(targets) = 2
    /\ num_queries = 2
    /\ num_targets(1) = 0 /\ num_targets(2) = 2
    /\ ret.indices[1] = [i |-> <<>>, j |-> <<>>]
    /\ Len(ret.indices[2].i) = 2

all_zero(m) == m.cost_class = 0 /\ m.cost_bbox = 0 /\ m.cost_giou = 0

\* C8: constructing the matcher fails exactly when the three weights are all
\* zero, and forward only ever runs on a matcher with a non-zero weight.
C8_ConfigError ==
    /\ matcher.status # "none" =>
          /\ matcher.status = "AssertionError" <=> all_zero(matcher)
          /\ matcher.status = "constructed" <=> ~all_zero(matcher)
    /\ call = "forward" => (matcher.status = "constructed" /\ ~all_zero(matcher))

C8_Witness ==
    /\ matcher.status = "AssertionError"
    /\ all_zero(matcher)
    /\ call = "none"

\* the combined cost of one query against one target, computed on the pair
pair_cost(m, logits, qbox, label, tbox) ==
    combine(m, l1_dist(qbox, tbox), softmax(logits)[label + 1],
            pair_giou(pair_iou(qbox, tbox), pair_union(qbox, tbox),
                      pair_enclosing(qbox, tbox)))

\* the Q x T_b matrix of element b's own queries against its own targets
own_block(b) ==
    [q \in 1..num_queries |-> [t \in 1..num_targets(b) |->
        pair_cost(matcher, outputs.pred_logits[b][q], outputs.pred_boxes[b][q],
                  targets[b].labels[t], targets[b].boxes[t])]]

\* C10: the block handed to the solver for element b is the matrix of b's own
\* queries against b's own targets, in their order, and the indices returned
\* for b are the solver's answer on that matrix.
C10_Blocks ==
    (call = "forward" /\ ret.status \in {"ok", "ValueError"} /\ Len(targets) = batch_size) =>
        /\ Len(cost_blocks(matcher, outputs, targets)) = batch_size
        /\ \A b \in 1..batch_size : cost_blocks(matcher, outputs, targets)[b] = own_block(b)
        /\ ret.status = "ok" =>
              \A b \in 1..batch_size :
                  LET r == linear_sum_assignment(own_block(b))
                  IN ret.indices[b] = [i |-> r.row_ind, j |-> r.col_ind]

\* two elements whose blocks differ in size and in content
C10_Witness ==
    /\ call = "forward"
    /\ ret.status = "ok"
    /\ batch_size = 2 /\ Len(targets) = 2
    /\ num_queries = 2
    /\ num_targets(1) = 2 /\ num_targets(2) = 1
    /\ own_block(1)[1] # own_block(1)[2]
    /\ own_block(2)[1] # own_block(2)[2]
    /\ ret.indices[2].i = <<1>>

---------------------------------------------------------------------------
(* Properties of the geometry.                                             *)

\* C9: for every box b with x1 >= x0 and y1 >= y0, boxes without width or
\* height included, box_iou(b, b) = 1 and generalized_box_iou(b, b) = 1.
C9_SelfIoU ==
    (call \in {"box_iou", "generalized_box_iou"} /\ boxes1 = boxes2 /\ ~some_degenerate) =>
        /\ ret.status = "ok"
        /\ call = "box_iou" => ret.iou[1][1] = Int2R(1)
        /\ call = "generalized_box_iou" => ret.giou[1][1] = Int2R(1)

---------------------------------------------------------------------------
(* Properties of the detection filter.                                     *)

\* the score of query q (1-based) of the predictions
score(q) == top_score(preds.logits[q])

\* the queries that pass the confidence threshold of run r
candidates(r) == {q \in 1..Len(preds.boxes) : RGt(score(q), r.confidence_threshold)}

\* descending score order; queries of equal score keep their order
precedes(e, q) == RGt(score(e), score(q)) \/ (score(e) = score(q) /\ e < q)

\* the IoU of box_iou exceeds the IoU threshold of run r
overlaps(r, a, b) == RGt(box_iou(<<a>>, <<b>>).iou[1][1], r.iou_threshold)

\* the queries (1-based) run r emitted
emitted(r) == {r.out.query[k] + 1 : k \in 1..Len(r.out.query)}

C7_Monotone ==
    \A r1, r2 \in runs :
        (r1.iou_threshold = r2.iou_threshold
         /\ ~RGt(r1.confidence_threshold, r2.confidence_threshold))
            => Len(r2.out.boxes) <= Len(r1.out.boxes)

\* two runs of which the one with the higher threshold loses a detection to
\* the threshold while a suppressed box stays suppressed
C7_Witness ==
    \E r1, r2 \in runs :
        /\ r1.iou_threshold = r2.iou_threshold
        /\ RLt(r1.confidence_threshold, r2.confidence_threshold)
        /\ Len(preds.boxes) = 3
        /\ Len(r1.out.boxes) = 2
        /\ Len(r2.out.boxes) = 1

===========================================================================
